---- MODULE Spec2Model ----
(***************************************************************************)
(* NutriBot.ai: the browser chat client (fetchWithRetry, sendMessage and   *)
(* the DOM event handlers that invoke it) and the Express proxy endpoint   *)
(* POST /api/chat.                                                         *)
(*                                                                         *)
(* JavaScript values are records tagged with their type (field t).  A     *)
(* string is the sequence of its characters.  The client runs on one      *)
(* event loop: each action is one task (an event handler, a timer, the    *)
(* settling of a promise) together with every microtask it triggers.      *)
(***************************************************************************)
EXTENDS Integers, Sequences, FiniteSets, TLC

VARIABLES chatHistory, inputValue, inputDisabled, sendDisabled, chatWindow,
          timers, rt, rejected, px

clientVars == <<chatHistory, inputValue, inputDisabled, sendDisabled,
                chatWindow, timers, rt, rejected>>

vars == <<chatHistory, inputValue, inputDisabled, sendDisabled, chatWindow,
          timers, rt, rejected, px>>

\* ---------------------------------------------------------------- bounds
\* number of sendMessage round trips that pass the empty-input check
MaxRoundTrips == 2
\* number of quick-action setTimeout callbacks pending at once
MaxTimers == 1
\* number of requests the proxy handles at once
MaxHandlers == 1

\* ------------------------------------------------------------- constants
MAX_RETRIES == 5

\* the fixed message of the catch block, one opaque character
FALLBACK ==
    <<"An error occurred while communicating with the server. Please check if the Node.js server is running (http://localhost:3000).">>

\* ------------------------------------------------------------ JS values
Undefined == [t |-> "undefined"]
JNull == [t |-> "null"]
Str(s) == [t |-> "string", s |-> s]
Arr(a) == [t |-> "array", a |-> a]
Obj(f) == [t |-> "object", f |-> f]
Num(n) == [t |-> "number", n |-> n]
Bool(b) == [t |-> "boolean", b |-> b]

\* a truth test that takes the empty string for true
Truthy_EmptyStringTrue(v) ==
    /\ v.t \notin {"undefined", "null"}
    /\ v.t = "number" => v.n # 0
    /\ v.t = "boolean" => v.b

\* ToBoolean
Truthy(v) ==
    CASE v.t = "undefined" -> FALSE
      [] v.t = "null" -> FALSE
      [] v.t = "string" -> v.s # <<>>
      [] v.t = "number" -> v.n # 0
      [] v.t = "boolean" -> v.b
      [] OTHER -> TRUE

\* Array.isArray
IsArray(v) == v.t = "array"

\* v?.name
Get(v, name) ==
    IF v.t = "object" /\ name \in DOMAIN v.f THEN v.f[name] ELSE Undefined

\* v?.[0]
First(v) == IF v.t = "array" /\ Len(v.a) >= 1 THEN v.a[1] ELSE Undefined

\* what the user can have in the input box
InputValues == {<<>>, <<" ">>, <<" ", "a", " ">>}
\* textContent of the .qa-btn elements
QAButtons == {<<"b", " ">>, <<" ">>}
\* JSON values the response body can parse to
Payloads ==
    { JNull,
      Obj([text |-> Undefined, sources |-> Undefined]),
      Obj([text |-> Str(<<"x", "\n", "y">>),
           sources |-> Arr(<<[uri |-> "u", title |-> "t"]>>)]) }
\* how one fetch attempt can settle before its body is read
Arrivals == {"neterr", "http400", "http500", "ok"}

IsSpace(c) == c \in {" ", "\n", "\t"}

RECURSIVE TrimStart(_)
TrimStart(s) ==
    IF s = <<>> THEN <<>>
    ELSE IF IsSpace(Head(s)) THEN TrimStart(Tail(s)) ELSE s

RECURSIVE TrimEnd(_)
TrimEnd(s) ==
    IF s = <<>> THEN <<>>
    ELSE IF IsSpace(s[Len(s)]) THEN TrimEnd(SubSeq(s, 1, Len(s) - 1)) ELSE s

\* a trim that strips nothing
Trim_None(s) == s

\* String.prototype.trim
Trim(s) == TrimEnd(TrimStart(s))

RECURSIVE ReplaceNewlines(_)
\* text.replace(/\n/g, '<br>')
ReplaceNewlines(s) ==
    IF s = <<>> THEN <<>>
    ELSE <<(IF Head(s) = "\n" THEN "<br>" ELSE Head(s))>>
         \o ReplaceNewlines(Tail(s))

RECURSIVE Pow2(_)
Pow2(n) == IF n = 0 THEN 1 ELSE 2 * Pow2(n - 1)

\* a backoff that grows by one second per retry
Delay_Linear(retries) == (retries + 1) * 1000

\* const delay = Math.pow(2, retries) * 1000
Delay(retries) == Pow2(retries) * 1000

\* a retry test that is off by one
ShouldRetry_OffByOne(retries) == retries <= MAX_RETRIES

\* if (retries < MAX_RETRIES)
ShouldRetry(retries) == retries < MAX_RETRIES

Turn(role, text) == [role |-> role, parts |-> <<[text |-> text]>>]

\* JSON.stringify of one turn: a property whose value is undefined is left out
StringifyTurn(turn) ==
    IF turn.parts[1].text = Undefined
    THEN [role |-> turn.role, parts |-> <<"{}">>]
    ELSE [role |-> turn.role, parts |-> <<turn.parts[1].text.s>>]

\* JSON.stringify({ chatHistory: chatHistory })
Stringify(history) == [i \in 1..Len(history) |-> StringifyTurn(history[i])]

\* ------------------------------------------------- round trips (client)
Slots == 1..MaxRoundTrips

\* one sendMessage invocation that passed the empty-input check, with the
\* fetchWithRetry chain it awaits.  pc is the await the chain is suspended at;
\* retries, body and error are the locals of fetchWithRetry; the other fields
\* record what the round trip has done so far.
NoRT ==
    [pc |-> "unused", retries |-> 0, body |-> <<>>, error |-> "none",
     attempts |-> 0, waits |-> <<>>, sent |-> <<>>, before |-> <<>>,
     query |-> <<>>, okAt |-> 0, result |-> "none", payload |-> Undefined,
     pushedModel |-> FALSE, shownReply |-> FALSE,
     shownFallback |-> FALSE]

started == Cardinality({r \in Slots : rt[r].pc # "unused"})

InFlight == {r \in Slots : rt[r].pc \in {"fetching", "parsing", "waiting"}}

\* a body serialized again from the live history at every attempt
AttemptBody_Reserialized(r) == Stringify(chatHistory)

\* the body of the request an attempt of round trip r sends: options.body,
\* the string built once by sendMessage
AttemptBody(r) == rt[r].body

\* displayMessage throws before it appends anything when a bot text is not a
\* string (text.replace) or sources is null (sources.length)
DisplayThrows(text, isUser, sources) ==
    (~isUser /\ text.t # "string") \/ sources.t = "null"

\* the bubble displayMessage appends to #chat-window
Bubble(text, isUser, sources) ==
    [html |-> IF isUser THEN text.s ELSE ReplaceNewlines(text.s),
     isUser |-> isUser,
     links |-> IF sources.t = "array" THEN sources.a ELSE <<>>]

\* a destructuring that never delivers the result
Destructures_Never(threw, p) == FALSE

\* const { text: botText, sources } = result: reached when fetchWithRetry
\* resolved, and a TypeError when the result is null
Destructures(threw, p) == ~threw /\ p.t = "object"

\* a failure path that takes the round trip's unanswered user turn back out
HistoryAfter_DropsUnanswered(r, threw, p) ==
    IF Destructures(threw, p)
    THEN Append(chatHistory, Turn("model", p.f.text))
    ELSE SubSeq(chatHistory, 1, Len(rt[r].before))
         \o SubSeq(chatHistory, Len(rt[r].before) + 2, Len(chatHistory))

\* chatHistory when round trip r ends: the model turn is pushed once the
\* result is destructured, and nothing is pushed or removed on the catch path
HistoryAfter(r, threw, p) ==
    IF Destructures(threw, p)
    THEN Append(chatHistory, Turn("model", p.f.text))
    ELSE chatHistory

\* sendMessage from the point where the awaited fetchWithRetry settles
\* (threw: it rejected; otherwise it resolved with p): steps 4-6
Complete(r, rec, threw, p) ==
    LET destructOk == Destructures(threw, p)
        dispOk == destructOk /\ ~DisplayThrows(p.f.text, FALSE, p.f.sources)
    IN  /\ chatHistory' = HistoryAfter(r, threw, p)
        /\ chatWindow' = IF dispOk
                         THEN Append(chatWindow,
                                     Bubble(p.f.text, FALSE, p.f.sources))
                         ELSE Append(chatWindow,
                                     Bubble(Str(FALLBACK), FALSE, Undefined))
        /\ rt' = [rt EXCEPT ![r] = [rec EXCEPT !.pc = "done",
                                               !.pushedModel = destructOk,
                                               !.shownReply = dispOk,
                                               !.shownFallback = ~dispOk]]
        /\ inputDisabled' = FALSE
        /\ sendDisabled' = FALSE

\* the catch block of fetchWithRetry
Fail(r, kind) ==
    LET rec == [rt[r] EXCEPT !.error = kind]
    IN  IF ShouldRetry(rt[r].retries)
        THEN /\ rt' = [rt EXCEPT ![r] =
                        [rec EXCEPT !.pc = "waiting",
                                    !.waits = Append(@, Delay(rt[r].retries))]]
             /\ UNCHANGED <<chatHistory, chatWindow, inputDisabled,
                            sendDisabled>>
        ELSE Complete(r, [rec EXCEPT !.result = "threw"], TRUE, JNull)

\* window.sendMessage up to its first await
SendMessage ==
    LET userQuery == Trim(inputValue)
        hist == Append(chatHistory, Turn("user", Str(userQuery)))
    IN  IF userQuery = <<>>
        THEN /\ rejected' = TRUE
             /\ UNCHANGED <<chatHistory, inputValue, inputDisabled,
                            sendDisabled, chatWindow, rt>>
        ELSE /\ started < MaxRoundTrips
             /\ UNCHANGED rejected
             /\ chatWindow' = Append(chatWindow,
                                     Bubble(Str(userQuery), TRUE, Undefined))
             /\ inputValue' = <<>>
             /\ inputDisabled' = TRUE
             /\ sendDisabled' = TRUE
             /\ chatHistory' = hist
             /\ rt' = [rt EXCEPT ![started + 1] =
                        [NoRT EXCEPT !.pc = "fetching",
                                     !.body = Stringify(hist),
                                     !.attempts = 1,
                                     !.sent = <<Stringify(hist)>>,
                                     !.before = chatHistory,
                                     !.query = userQuery]]

\* ------------------------------------------------------------- actions
\* the user edits the input box: the 'input' listener
TypeInput(v) ==
    /\ ~inputDisabled
    /\ v # inputValue
    /\ inputValue' = v
    /\ sendDisabled' = (Trim(v) = <<>>)
    /\ UNCHANGED <<chatHistory, inputDisabled, chatWindow, timers, rt,
                   rejected, px>>

\* the user presses Enter in the input box: the 'keypress' listener
PressEnter ==
    /\ ~inputDisabled
    /\ IF ~sendDisabled
       THEN SendMessage
       ELSE UNCHANGED <<chatHistory, inputValue, inputDisabled, sendDisabled,
                        chatWindow, rt, rejected>>
    /\ UNCHANGED <<timers, px>>

\* the user clicks a quick-action button: the .qa-btn 'click' listener
ClickQA(b) ==
    LET q == Trim(b)
    IN  /\ IF q = <<>>
           THEN UNCHANGED <<inputValue, timers>>
           ELSE /\ timers < MaxTimers
                /\ inputValue' = q
                /\ timers' = timers + 1
        /\ UNCHANGED <<chatHistory, inputDisabled, sendDisabled, chatWindow,
                       rt, rejected, px>>

\* a quick-action setTimeout callback runs
TimerFire ==
    /\ timers > 0
    /\ timers' = timers - 1
    /\ SendMessage
    /\ UNCHANGED px

\* await fetch(url, options) settles
ResponseArrives(r, a) ==
    /\ rt[r].pc = "fetching"
    /\ IF a = "ok"
       THEN /\ rt' = [rt EXCEPT ![r].pc = "parsing"]
            /\ UNCHANGED <<chatHistory, chatWindow, inputDisabled,
                           sendDisabled>>
       ELSE Fail(r, a)
    /\ UNCHANGED <<inputValue, timers, rejected, px>>

\* await response.json() resolves with p
BodyParsed(r, p) ==
    /\ rt[r].pc = "parsing"
    /\ Complete(r, [rt[r] EXCEPT !.result = "returned",
                                 !.okAt = rt[r].attempts,
                                 !.payload = p], FALSE, p)
    /\ UNCHANGED <<inputValue, timers, rejected, px>>

\* await response.json() rejects
BodyParseFails(r) ==
    /\ rt[r].pc = "parsing"
    /\ Fail(r, "badjson")
    /\ UNCHANGED <<inputValue, timers, rejected, px>>

\* a backoff promise that is never resolved
BackoffElapsed_Never(r) == FALSE

\* the backoff setTimeout elapses: fetchWithRetry(url, options, retries + 1)
BackoffElapsed(r) ==
    /\ rt[r].pc = "waiting"
    /\ rt' = [rt EXCEPT ![r] = [@ EXCEPT !.pc = "fetching",
                                         !.retries = @ + 1,
                                         !.error = "none",
                                         !.attempts = @ + 1,
                                         !.sent = Append(@, AttemptBody(r))]]
    /\ UNCHANGED <<chatHistory, inputValue, inputDisabled, sendDisabled,
                   chatWindow, timers, rejected, px>>

\* ------------------------------------------------------------ the proxy
Handlers == 1..MaxHandlers

INVALID_INPUT ==
    [status |-> 400, body |-> [error |-> "Invalid chat history provided."]]
SERVER_ERROR ==
    [status |-> 500, body |-> [error |-> "Failed to communicate with the AI service."]]
PLACEHOLDER == Str(<<"Sorry, I couldn't generate a response. Please try again.">>)

\* the values req.body.chatHistory can have after express.json()
ReqHistories ==
    { Undefined, JNull, Str(<<>>), Str(<<"h">>), Num(0), Num(1), Bool(FALSE),
      Obj([role |-> Str(<<"user">>)]), Arr(<<>>),
      Arr(<<Turn("user", Str(<<"a">>))>>) }

\* what generateContent can reject with
UpstreamErrors == {"network", "auth", "quota"}

PartTexts == {Undefined, Str(<<>>), Str(<<"h", "i">>)}
PartLists ==
    {Undefined, Arr(<<>>)} \cup {Arr(<<Obj([text |-> x])>>) : x \in PartTexts}
Contents == {Undefined} \cup {Obj([parts |-> x]) : x \in PartLists}
Attributions ==
    { Obj([web |-> Obj([uri |-> Str(<<"u1">>), title |-> Str(<<"t1">>)])]),
      Obj([web |-> Obj([uri |-> Str(<<"u2">>), title |-> Str(<<"t2">>)])]),
      Obj([web |-> Obj([uri |-> Str(<<"u3">>), title |-> Undefined])]),
      Obj([web |-> Obj([uri |-> Str(<<>>), title |-> Str(<<"t4">>)])]),
      Obj([web |-> Undefined]) }
AttributionLists ==
    {<<>>} \cup {<<x>> : x \in Attributions}
           \cup {<<x, y>> : x \in Attributions, y \in Attributions}
Groundings ==
    {Undefined, Obj([groundingAttributions |-> Undefined])}
        \cup {Obj([groundingAttributions |-> Arr(x)]) : x \in AttributionLists}
Candidates ==
    {Obj([content |-> x, groundingMetadata |-> y]) :
        x \in Contents, y \in Groundings}
\* what generateContent can resolve with
UpstreamResponses ==
    {Obj([candidates |-> Undefined]), Obj([candidates |-> Arr(<<>>)])}
        \cup {Obj([candidates |-> Arr(<<x>>)]) : x \in Candidates}

\* a validation that forgets Array.isArray
InvalidHistory_NoArrayCheck(v) == ~Truthy(v)

\* if (!chatHistory || !Array.isArray(chatHistory))
InvalidHistory(v) == ~Truthy(v) \/ ~IsArray(v)

\* candidate.content?.parts?.[0]?.text
FirstText(candidate) ==
    Get(First(Get(Get(candidate, "content"), "parts")), "text")

\* .map(attribution => ({ uri: attribution.web?.uri, title: attribution.web?.title }))
MapAttribution(attribution) ==
    [uri |-> Get(Get(attribution, "web"), "uri"),
     title |-> Get(Get(attribution, "web"), "title")]

\* a filter that forgets the title
KeepSource_UriOnly(source) == Truthy(source.uri)

\* .filter(source => source.uri && source.title)
KeepSource(source) == Truthy(source.uri) /\ Truthy(source.title)

RECURSIVE FilterSources(_)
FilterSources(list) ==
    IF list = <<>> THEN <<>>
    ELSE (IF KeepSource(Head(list)) THEN <<Head(list)>> ELSE <<>>)
         \o FilterSources(Tail(list))

\* a presence test that takes every candidate to carry an attribution list
HasAttributions_Always(groundingMetadata) == TRUE

\* if (groundingMetadata && groundingMetadata.groundingAttributions)
HasAttributions(groundingMetadata) ==
    /\ Truthy(groundingMetadata)
    /\ Truthy(Get(groundingMetadata, "groundingAttributions"))

\* groundingAttributions.map is a TypeError when the value is not an array
ExtractThrows(candidate) ==
    LET groundingMetadata == Get(candidate, "groundingMetadata")
    IN  /\ HasAttributions(groundingMetadata)
        /\ ~IsArray(Get(groundingMetadata, "groundingAttributions"))

\* the citations read from candidate.groundingMetadata
Extract(candidate) ==
    LET groundingMetadata == Get(candidate, "groundingMetadata")
        attributions == Get(groundingMetadata, "groundingAttributions")
    IN  IF HasAttributions(groundingMetadata) /\ IsArray(attributions)
        THEN FilterSources([i \in 1..Len(attributions.a) |->
                                MapAttribution(attributions.a[i])])
        ELSE <<>>

\* an extraction that is not nested in the test of the candidate's text
SourcesOf_Unnested(hasText, candidate) == Extract(candidate)

\* let sources = []; it is assigned only inside if (candidate && ...text)
SourcesOf(hasText, candidate) ==
    IF hasText THEN Extract(candidate) ELSE <<>>

\* the handler's try block throws while it builds the response
NormalizeThrows(response) ==
    LET candidate == First(Get(response, "candidates"))
    IN  /\ Truthy(candidate)
        /\ Truthy(FirstText(candidate))
        /\ ExtractThrows(candidate)

\* the text and the sources the handler sends for an upstream response
Normalize(response) ==
    LET candidate == First(Get(response, "candidates"))
        hasText == Truthy(candidate) /\ Truthy(FirstText(candidate))
    IN  [text |-> IF hasText THEN FirstText(candidate) ELSE PLACEHOLDER,
         sources |-> SourcesOf(hasText, candidate)]

\* an error response that carries the upstream error's detail
ErrorResponse_Leaks(e) == [status |-> 500, body |-> [error |-> e]]

\* the catch block: res.status(500).json({ error: '...' })
ErrorResponse(e) == SERVER_ERROR

IdleHandler ==
    [pc |-> "idle", chatHistory |-> Undefined, called |-> FALSE,
     upstream |-> Undefined, logged |-> "none", res |-> [status |-> 0]]

\* a POST /api/chat arrives: the handler up to its await
Receive(h, v) ==
    /\ px[h].pc \in {"idle", "responded"}
    /\ px' = [px EXCEPT ![h] =
                IF InvalidHistory(v)
                THEN [IdleHandler EXCEPT !.pc = "responded",
                                         !.chatHistory = v,
                                         !.res = INVALID_INPUT]
                ELSE [IdleHandler EXCEPT !.pc = "upstream",
                                         !.chatHistory = v,
                                         !.called = TRUE]]
    /\ UNCHANGED clientVars

\* generateContent resolves
UpstreamReturns(h, response) ==
    /\ px[h].pc = "upstream"
    /\ px' = [px EXCEPT ![h] =
                IF NormalizeThrows(response)
                THEN [@ EXCEPT !.pc = "responded",
                               !.upstream = response,
                               !.logged = "TypeError",
                               !.res = ErrorResponse("TypeError")]
                ELSE [@ EXCEPT !.pc = "responded",
                               !.upstream = response,
                               !.res = [status |-> 200,
                                        body |-> Normalize(response)]]]
    /\ UNCHANGED clientVars

\* generateContent rejects
UpstreamFails(h, e) ==
    /\ px[h].pc = "upstream"
    /\ px' = [px EXCEPT ![h] = [@ EXCEPT !.pc = "responded",
                                         !.logged = e,
                                         !.res = ErrorResponse(e)]]
    /\ UNCHANGED clientVars

Init ==
    /\ chatHistory = <<>>
    /\ inputValue = <<>>
    /\ inputDisabled = FALSE
    /\ sendDisabled = TRUE
    /\ chatWindow = <<>>
    /\ timers = 0
    /\ rt = [r \in Slots |-> NoRT]
    /\ rejected = FALSE
    /\ px = [h \in Handlers |-> IdleHandler]

Next ==
    \/ \E v \in InputValues : TypeInput(v)
    \/ PressEnter
    \/ \E b \in QAButtons : ClickQA(b)
    \/ TimerFire
    \/ \E r \in Slots, a \in Arrivals : ResponseArrives(r, a)
    \/ \E r \in Slots, p \in Payloads : BodyParsed(r, p)
    \/ \E r \in Slots : BodyParseFails(r)
    \/ \E r \in Slots : BackoffElapsed(r)

Spec == Init /\ [][Next]_vars

\* the await round trip r is suspended at settles: the fetch, the reading of
\* the body, or the backoff timer
Settle(r) ==
    \/ \E a \in Arrivals : ResponseArrives(r, a)
    \/ \E p \in Payloads : BodyParsed(r, p)
    \/ BodyParseFails(r)
    \/ BackoffElapsed(r)

\* every pending fetch attempt settles and every backoff timer fires
LiveSpec == Spec /\ \A r \in Slots : WF_vars(Settle(r))

ProxyNext ==
    \/ \E h \in Handlers, v \in ReqHistories : Receive(h, v)
    \/ \E h \in Handlers, response \in UpstreamResponses :
            UpstreamReturns(h, response)
    \/ \E h \in Handlers, e \in UpstreamErrors : UpstreamFails(h, e)

ProxySpec == Init /\ [][ProxyNext]_vars

\* ------------------------------------------------------------ claims
Roles(history) == [i \in 1..Len(history) |-> history[i].role]

Alternates(roles) == \A i \in 1..(Len(roles) - 1) : roles[i] # roles[i + 1]

UserFirst(roles) ==
    \A i \in 1..Len(roles) : roles[i] = (IF i % 2 = 1 THEN "user" ELSE "model")

IsPrefix(s, t) == Len(s) <= Len(t) /\ SubSeq(t, 1, Len(s)) = s

BackoffSchedule == <<1000, 2000, 4000, 8000, 16000>>

RECURSIVE SumSeq(_)
SumSeq(s) == IF s = <<>> THEN 0 ELSE Head(s) + SumSeq(Tail(s))

\* C1: a fetchWithRetry call never makes a 7th attempt, the waits it has made
\* are the first of 1, 2, 4, 8, 16 s, one between each two consecutive
\* attempts, and a call that ends by throwing (every attempt failed) has made
\* exactly 6 attempts and waited all five, 31 s in total.
C1_SixAttemptsThenThrow ==
    \A r \in Slots :
        /\ rt[r].attempts <= 6
        /\ IsPrefix(rt[r].waits, BackoffSchedule)
        /\ rt[r].pc \in {"fetching", "parsing"}
              => Len(rt[r].waits) = rt[r].attempts - 1
        /\ rt[r].pc = "waiting" => Len(rt[r].waits) = rt[r].attempts
        /\ rt[r].result = "threw"
              => /\ rt[r].attempts = 6
                 /\ rt[r].waits = BackoffSchedule
                 /\ SumSeq(rt[r].waits) = 31000

C1_Witness ==
    \E r \in Slots :
        /\ rt[r].result = "threw"
        /\ rt[r].error \in {"neterr", "http400", "http500"}
        /\ rt[r].attempts = 6
        /\ rt[r].shownFallback

\* C2: a fetchWithRetry call whose k-th attempt succeeded (k in 1..6) has made
\* exactly k attempts and k-1 waits, is finished, and handed that attempt's
\* payload to sendMessage, which built the model turn from its text.
C2_ReturnsAtFirstSuccess ==
    \A r \in Slots :
        rt[r].okAt # 0
            => /\ rt[r].okAt \in 1..6
               /\ rt[r].attempts = rt[r].okAt
               /\ Len(rt[r].waits) = rt[r].okAt - 1
               /\ rt[r].pc = "done"
               /\ rt[r].result = "returned"
               /\ rt[r].payload.t = "object"
                    => \E i \in (Len(rt[r].before) + 2)..Len(chatHistory) :
                          chatHistory[i] = Turn("model", rt[r].payload.f.text)

C2_Witness ==
    \E r \in Slots :
        /\ rt[r].okAt = 3
        /\ rt[r].payload.t = "object"
        /\ rt[r].shownReply

\* C3 (as claimed): a step in which response.json() rejects ends the call at
\* once: the round trip is finished with the error thrown, and no backoff
\* wait is added.
C3_ParseFailureNotRetried ==
    [][\A r \in Slots :
          (rt[r].pc = "parsing" /\ rt'[r].error = "badjson")
              => /\ rt'[r].pc = "done"
                 /\ rt'[r].result = "threw"
                 /\ rt'[r].waits = rt[r].waits]_vars

\* C4 (as claimed): at most one round trip is in flight.
C4_AtMostOneInFlight == Cardinality(InFlight) <= 1

AllSucceeded ==
    \A r \in Slots :
        \/ rt[r].pc = "unused"
        \/ rt[r].pc = "done" /\ rt[r].result = "returned"
                              /\ rt[r].payload.t = "object"

\* C5 (as claimed): when every round trip started so far has succeeded,
\* chatHistory has two turns per round trip, alternating from "user".
C5_TwoTurnsPerSuccess ==
    AllSucceeded
        => /\ Len(chatHistory) = 2 * started
           /\ UserFirst(Roles(chatHistory))

\* C6 (as claimed): the step in which a round trip ends in terminal failure
\* leaves chatHistory equal to the history before its send followed by its
\* user turn.
C6_FailureKeepsOnlyUserTurn ==
    [][\A r \in Slots :
          (rt[r].pc # "done" /\ rt'[r].pc = "done" /\ rt'[r].result = "threw")
              => chatHistory' = Append(rt[r].before,
                                       Turn("user", Str(rt[r].query)))]_vars

\* C7 (as claimed): once a round trip has ended in terminal failure and a
\* later one has succeeded, no two consecutive turns of chatHistory have the
\* same role.
C7_AlternatesAfterFailure ==
    (\E r, q \in Slots :
        /\ r < q
        /\ rt[r].pc = "done" /\ rt[r].result = "threw"
        /\ rt[q].pc = "done" /\ rt[q].result = "returned"
        /\ rt[q].payload.t = "object")
        => Alternates(Roles(chatHistory))

\* C7 (amended): once a round trip has ended in terminal failure and a
\* later one has succeeded, chatHistory holds the later one's model turn and
\* two consecutive user turns: the unanswered user turn was kept, so the
\* roles do not alternate.
C7_UnansweredTurnStays ==
    \A r, q \in Slots :
        (/\ r < q
         /\ rt[r].pc = "done" /\ rt[r].result = "threw"
         /\ rt[q].pc = "done" /\ rt[q].result = "returned"
         /\ rt[q].payload.t = "object")
            => /\ \E i \in 1..(Len(chatHistory) - 1) :
                     /\ chatHistory[i].role = "user"
                     /\ chatHistory[i + 1].role = "user"
               /\ \E j \in (Len(rt[q].before) + 2)..Len(chatHistory) :
                     chatHistory[j] = Turn("model", rt[q].payload.f.text)
               /\ chatHistory[Len(rt[r].before) + 1]
                     = Turn("user", Str(rt[r].query))

C7_Witness ==
    /\ rt[1].pc = "done" /\ rt[1].result = "threw"
    /\ rt[2].pc = "done" /\ rt[2].result = "returned"
    /\ rt[2].before = <<Turn("user", Str(rt[1].query))>>
    /\ Roles(chatHistory) = <<"user", "user", "model">>

OnlySpaces(s) == \A i \in 1..Len(s) : s[i] = " "

\* C8: a step that invokes sendMessage (Enter with the button enabled, or a
\* quick-action timer) while the input holds nothing but spaces changes
\* neither chatHistory, nor the round trips, nor the input, nor the
\* enabled state of the input and the button, nor the chat window.
C8_EmptyInputIsNoOp ==
    [][(((PressEnter /\ ~sendDisabled) \/ TimerFire) /\ OnlySpaces(inputValue))
          => UNCHANGED <<chatHistory, rt, inputValue, inputDisabled,
                         sendDisabled, chatWindow>>]_vars

C8_Witness == rejected /\ inputValue = <<" ">> /\ ~sendDisabled

\* C9: every attempt of a round trip sent the serialized history as it stood
\* right after the round trip's user turn was appended.
C9_EveryAttemptSendsSnapshot ==
    \A r \in Slots :
        /\ Len(rt[r].sent) = rt[r].attempts
        /\ \A i \in 1..Len(rt[r].sent) :
              rt[r].sent[i] =
                 Stringify(Append(rt[r].before, Turn("user", Str(rt[r].query))))

C9_Witness ==
    \E r \in Slots :
        /\ Len(rt[r].sent) = 6
        /\ rt[r].before # <<>>
        /\ Len(chatHistory) > Len(rt[r].before) + 1

\* C10: a request whose chatHistory is not an array is answered with the 400
\* invalid-input response without an upstream call; one whose chatHistory is
\* an array (the empty one too) is forwarded upstream and never answered 400.
C10_OnlyArraysForwarded ==
    \A h \in Handlers :
        px[h].pc # "idle"
            => IF px[h].chatHistory.t = "array"
               THEN px[h].called /\ px[h].res.status # 400
               ELSE /\ ~px[h].called
                    /\ px[h].pc = "responded"
                    /\ px[h].res.status = 400
                    /\ px[h].res.body = [error |-> "Invalid chat history provided."]

C10_Witness ==
    \E h \in Handlers :
        /\ px[h].chatHistory = Arr(<<>>)
        /\ px[h].called
        /\ px[h].res.status = 200

\* the first candidate of an upstream response, or Undefined
FirstCandidate(response) ==
    IF response.f.candidates.t = "array" /\ Len(response.f.candidates.a) >= 1
    THEN response.f.candidates.a[1]
    ELSE Undefined

\* the characters of the first candidate's first part's text, <<>> when the
\* candidate, its content, its parts or the text is missing or empty
OwnText(response) ==
    LET c == FirstCandidate(response)
    IN  IF /\ c.t = "object"
           /\ c.f.content.t = "object"
           /\ c.f.content.f.parts.t = "array"
           /\ Len(c.f.content.f.parts.a) >= 1
           /\ c.f.content.f.parts.a[1].f.text.t = "string"
        THEN c.f.content.f.parts.a[1].f.text.s
        ELSE <<>>

HasAttributionList(response) ==
    LET c == FirstCandidate(response)
    IN  /\ c.t = "object"
        /\ c.f.groundingMetadata.t = "object"
        /\ c.f.groundingMetadata.f.groundingAttributions.t = "array"

AttributionList(response) ==
    FirstCandidate(response).f.groundingMetadata.f.groundingAttributions.a

NonEmptyString(v) == v.t = "string" /\ v.s # <<>>

IsCompleteAttribution(a) ==
    /\ a.f.web.t = "object"
    /\ NonEmptyString(a.f.web.f.uri)
    /\ NonEmptyString(a.f.web.f.title)

CompleteSources(list) ==
    LET kept == SelectSeq(list, IsCompleteAttribution)
    IN  [i \in 1..Len(kept) |-> [uri |-> kept[i].f.web.f.uri,
                                 title |-> kept[i].f.web.f.title]]

Answered(h) == px[h].pc = "responded" /\ px[h].upstream.t = "object"

\* C11: a request whose upstream call failed is answered with status 500 and
\* the one fixed body, whatever the upstream error was; the response is not
\* the 400 invalid-input response.
C11_FixedServerError ==
    \A h \in Handlers :
        px[h].logged \in UpstreamErrors
            => /\ px[h].res.status = 500
               /\ px[h].res.body =
                    [error |-> "Failed to communicate with the AI service."]
               /\ px[h].res # INVALID_INPUT

C11_Witness ==
    \E h \in Handlers :
        /\ px[h].logged = "quota"
        /\ px[h].called
        /\ px[h].res.status = 500

\* C12: the text of a success response is a non-empty string: the first
\* candidate's first part's text when that is non-empty, the placeholder
\* otherwise.
C12_TextNeverEmpty ==
    \A h \in Handlers :
        px[h].res.status = 200
            => /\ NonEmptyString(px[h].res.body.text)
               /\ px[h].res.body.text.s =
                    IF OwnText(px[h].upstream) # <<>>
                    THEN OwnText(px[h].upstream)
                    ELSE <<"Sorry, I couldn't generate a response. Please try again.">>

C12_Witness ==
    \E h \in Handlers :
        /\ px[h].res.status = 200
        /\ FirstCandidate(px[h].upstream).t = "object"
        /\ FirstText(FirstCandidate(px[h].upstream)) = Str(<<>>)
        /\ px[h].res.body.text = PLACEHOLDER

\* C13 (as claimed): whenever the upstream response carries an attribution
\* list, the sources returned are its complete attributions, in order.
C13_SourcesAreCompleteAttributions ==
    \A h \in Handlers :
        (Answered(h) /\ HasAttributionList(px[h].upstream))
            => /\ px[h].res.status = 200
               /\ px[h].res.body.sources =
                    CompleteSources(AttributionList(px[h].upstream))

\* C13 (amended): whenever the first candidate has a non-empty text and
\* carries an attribution list, the sources returned are its attributions
\* with a non-empty uri and a non-empty title, as {uri, title}, in order.
C13_SourcesWhenTextPresent ==
    \A h \in Handlers :
        (/\ Answered(h)
         /\ HasAttributionList(px[h].upstream)
         /\ OwnText(px[h].upstream) # <<>>)
            => /\ px[h].res.status = 200
               /\ px[h].res.body.sources =
                    CompleteSources(AttributionList(px[h].upstream))

C13_Witness ==
    \E h \in Handlers :
        /\ Answered(h)
        /\ HasAttributionList(px[h].upstream)
        /\ OwnText(px[h].upstream) # <<>>
        /\ Len(AttributionList(px[h].upstream)) = 2
        /\ AttributionList(px[h].upstream)[1].f.web.t = "object"
        /\ AttributionList(px[h].upstream)[1].f.web.f.title = Undefined
        /\ px[h].res.body.sources =
              <<[uri |-> Str(<<"u2">>), title |-> Str(<<"t2">>)]>>

\* C14: an upstream response without grounding metadata, or without an
\* attribution list in it, is answered with a success response whose sources
\* are the empty list.
C14_NoMetadataNoSources ==
    \A h \in Handlers :
        (Answered(h) /\ ~HasAttributionList(px[h].upstream))
            => /\ px[h].res.status = 200
               /\ px[h].res.body.sources = <<>>

C14_Witness ==
    \E h \in Handlers :
        /\ Answered(h)
        /\ OwnText(px[h].upstream) # <<>>
        /\ FirstCandidate(px[h].upstream).f.groundingMetadata = Undefined
        /\ px[h].res.status = 200
        /\ px[h].res.body.sources = <<>>

\* C19: a success response with the placeholder text (the first candidate
\* has no non-empty text) has no sources, whatever attributions the upstream
\* response carries; sources are non-empty only beside the candidate's text.
C19_PlaceholderHasNoSources ==
    \A h \in Handlers :
        px[h].res.status = 200
            => /\ OwnText(px[h].upstream) = <<>>
                    => px[h].res.body.sources = <<>>
               /\ px[h].res.body.sources # <<>>
                    => px[h].res.body.text.s = OwnText(px[h].upstream)

C19_Witness ==
    \E h \in Handlers :
        /\ px[h].res.status = 200
        /\ px[h].res.body.text = PLACEHOLDER
        /\ HasAttributionList(px[h].upstream)
        /\ CompleteSources(AttributionList(px[h].upstream)) # <<>>
        /\ px[h].res.body.sources = <<>>

\* C15: under LiveSpec every round trip in flight reaches its end with the
\* input and the send button enabled, and a disabled input is enabled again.
C15_RoundTripEnds ==
    /\ \A r \in Slots :
          (rt[r].pc \in {"fetching", "parsing", "waiting"})
              ~> (rt[r].pc = "done" /\ ~inputDisabled /\ ~sendDisabled)
    /\ inputDisabled ~> ~inputDisabled

C15_Witness ==
    \E r, q \in Slots :
        /\ rt[r].pc = "done" /\ rt[r].result = "threw"
        /\ rt[q].pc = "done" /\ rt[q].result = "returned"
        /\ ~inputDisabled
        /\ ~sendDisabled

\* C16 (as claimed): a step in which an attempt is answered with status 400
\* ends the call at once: the error is thrown to sendMessage and no backoff
\* wait is added.
C16_InvalidInputNotRetried ==
    [][\A r \in Slots :
          (rt[r].pc = "fetching" /\ rt'[r].error = "http400")
              => /\ rt'[r].pc = "done"
                 /\ rt'[r].result = "threw"
                 /\ rt'[r].waits = rt[r].waits]_vars

\* C17: in every step chatHistory is a prefix of its next value.
C17_AppendOnly == [][IsPrefix(chatHistory, chatHistory')]_vars

C17_Witness ==
    /\ Len(chatHistory) = 3
    /\ \E r \in Slots : rt[r].result = "threw" /\ rt[r].attempts = 6
    /\ \E r \in Slots : rt[r].pushedModel

\* C18 (as claimed): a finished round trip either appended a model turn and
\* rendered the reply without the fallback, or rendered the fallback and
\* appended no model turn.
C18_ReplyOrFallback ==
    \A r \in Slots :
        rt[r].pc = "done"
            => \/ rt[r].pushedModel /\ rt[r].shownReply /\ ~rt[r].shownFallback
               \/ ~rt[r].pushedModel /\ rt[r].shownFallback /\ ~rt[r].shownReply
====
